---- MODULE Spec2Model ----
(***************************************************************************)
(* LikelihoodFunction (GPy/likelihoods/likelihood_functions.py): the EP /  *)
(* Laplace likelihood approximator.  One object, its capability dispatch   *)
(* bound by __init__, and one action per method a caller can invoke.       *)
(*                                                                         *)
(* Numbers are floating point values: a finite value is a reduced fraction *)
(* n/d with n and d rounded to stay below Prec; nan and +-inf are values;   *)
(* None is Python's None; a raised exception is carried as a value that    *)
(* every later operation passes on (the first one raised wins).           *)
(***************************************************************************)
EXTENDS Integers, Sequences, FiniteSets, TLC

\* ---------------------------------------------------------------- bounds
\* the precision of a float: numerators and denominators stay below Prec
Prec == 10000
\* cavity precisions tau range over 1..MaxTau
MaxTau == 2
\* predictive_values is called with sequences of at most MaxLen pairs
MaxLen == 2

\* ------------------------------------------------------- float arithmetic
Exceptions == {"TypeError", "AssertionError", "AttributeError"}

\* the one value of a one-element set (binds a computed value to a name)
The(S) == CHOOSE v \in S : TRUE

Abs(i) == IF i < 0 THEN -i ELSE i

Sign(i) == IF i < 0 THEN -1 ELSE IF i > 0 THEN 1 ELSE 0

RECURSIVE GCD(_, _)
GCD(a, b) == IF b = 0 THEN a ELSE GCD(b, a % b)

Max(a, b) == IF a > b THEN a ELSE b

\* the finite value n/d (d > 0), reduced; numerator and denominator are kept
\* below Prec by rounding both (the mantissa of a float), and a value too
\* large for that is inf
Num(n, d) ==
    LET q == IF Max(Abs(n), d) > Prec THEN Max(Abs(n), d) \div Prec + 1 ELSE 1
        n1 == Sign(n) * (Abs(n) \div q)
        d1 == d \div q
        g == GCD(Abs(n1), d1)
    IN  IF d1 = 0 THEN [k |-> "inf", n |-> Sign(n), d |-> 1]
        ELSE [k |-> "num", n |-> n1 \div g, d |-> d1 \div g]

Int2F(i) == Num(i, 1)

NaN == [k |-> "nan", n |-> 0, d |-> 1]

Inf(s) == [k |-> "inf", n |-> s, d |-> 1]

None == [k |-> "None", n |-> 0, d |-> 1]

Raise(e) == [k |-> e, n |-> 0, d |-> 1]

IsExc(x) == x.k \in Exceptions

IsNum(x) == x.k = "num"

\* the sign of a finite or infinite value
Sgn(x) == Sign(x.n)

\* x + y
Add(x, y) ==
    IF IsExc(x) THEN x
    ELSE IF IsExc(y) THEN y
    ELSE IF x.k = "None" \/ y.k = "None" THEN Raise("TypeError")
    ELSE IF x.k = "nan" \/ y.k = "nan" THEN NaN
    ELSE IF x.k = "inf" /\ y.k = "inf" THEN (IF x.n = y.n THEN x ELSE NaN)
    ELSE IF x.k = "inf" THEN x
    ELSE IF y.k = "inf" THEN y
    ELSE Num(x.n * y.d + y.n * x.d, x.d * y.d)

\* -x
Neg(x) ==
    IF IsExc(x) THEN x
    ELSE IF x.k = "None" THEN Raise("TypeError")
    ELSE IF x.k = "nan" THEN NaN
    ELSE [x EXCEPT !.n = -x.n]

\* x - y
Sub(x, y) == Add(x, Neg(y))

\* x * y
Mul(x, y) ==
    IF IsExc(x) THEN x
    ELSE IF IsExc(y) THEN y
    ELSE IF x.k = "None" \/ y.k = "None" THEN Raise("TypeError")
    ELSE IF x.k = "nan" \/ y.k = "nan" THEN NaN
    ELSE IF x.k = "inf" \/ y.k = "inf"
         THEN (IF Sgn(x) * Sgn(y) = 0 THEN NaN ELSE Inf(Sgn(x) * Sgn(y)))
    ELSE Num(x.n * y.n, x.d * y.d)

\* x / y on numpy floats: a zero divisor gives inf or nan (a warning, no error)
Div(x, y) ==
    IF IsExc(x) THEN x
    ELSE IF IsExc(y) THEN y
    ELSE IF x.k = "None" \/ y.k = "None" THEN Raise("TypeError")
    ELSE IF x.k = "nan" \/ y.k = "nan" THEN NaN
    ELSE IF y.k = "inf" THEN (IF x.k = "inf" THEN NaN ELSE Int2F(0))
    ELSE IF y.n = 0 THEN (IF Sgn(x) = 0 THEN NaN ELSE Inf(Sgn(x)))
    ELSE IF x.k = "inf" THEN Inf(Sgn(x) * Sgn(y))
    ELSE Num(Sign(y.n) * x.n * y.d, x.d * Abs(y.n))

\* x ** 2
Sq(x) == Mul(x, x)

RECURSIVE ISqrtIn(_, _, _)
ISqrtIn(i, lo, hi) ==
    IF hi - lo <= 1 THEN lo
    ELSE LET mid == (lo + hi) \div 2
         IN  IF mid * mid <= i THEN ISqrtIn(i, mid, hi) ELSE ISqrtIn(i, lo, mid)

\* the integer square root of i >= 0
ISqrt(i) == ISqrtIn(i, 0, 46341)

\* np.sqrt: nan below zero (a warning, no error); exact on squares of
\* fractions, otherwise rounded down to four decimals (two from 20 on)
Sqrt(x) ==
    IF IsExc(x) THEN x
    ELSE IF x.k = "None" THEN Raise("AttributeError")
    ELSE IF x.k = "nan" THEN NaN
    ELSE IF x.k = "inf" THEN (IF x.n > 0 THEN x ELSE NaN)
    ELSE IF x.n < 0 THEN NaN
    ELSE IF ISqrt(x.n) * ISqrt(x.n) = x.n /\ ISqrt(x.d) * ISqrt(x.d) = x.d
         THEN Num(ISqrt(x.n), ISqrt(x.d))
    ELSE IF (x.n * 10000) \div x.d < 200000
         THEN Num(ISqrt(((x.n * 10000) \div x.d) * 10000), 10000)
    ELSE Num(ISqrt((x.n * 10000) \div x.d), 100)

\* exp of a finite y >= 0: exp(y) = exp(y/2)^2 down to y <= 1/2, and there
\* the series to the fourth order
RECURSIVE ExpPos(_)
ExpPos(y) ==
    IF ~IsNum(y) THEN y
    ELSE IF 2 * y.n > y.d THEN Sq(ExpPos(Div(y, Int2F(2))))
    ELSE Add(Int2F(1), Add(y, Add(Div(Sq(y), Int2F(2)),
             Add(Div(Mul(y, Sq(y)), Int2F(6)), Div(Sq(Sq(y)), Int2F(24))))))

\* np.exp
Exp(x) ==
    IF IsExc(x) THEN x
    ELSE IF x.k = "None" THEN Raise("AttributeError")
    ELSE IF x.k = "nan" THEN NaN
    ELSE IF x.k = "inf" THEN (IF x.n > 0 THEN x ELSE Int2F(0))
    ELSE IF x.n >= 0 THEN ExpPos(x)
    ELSE Div(Int2F(1), ExpPos(Neg(x)))

Ln2 == Num(6931, 10000)

\* log of a finite x > 0: halved or doubled into [3/4, 3/2], and there
\* 2 (z + z^3/3 + z^5/5) with z = (x - 1) / (x + 1)
RECURSIVE LogPos(_)
LogPos(x) ==
    IF 2 * x.n > 3 * x.d THEN Add(Ln2, LogPos(Div(x, Int2F(2))))
    ELSE IF 4 * x.n < 3 * x.d THEN Sub(LogPos(Mul(x, Int2F(2))), Ln2)
    ELSE The({ Mul(Int2F(2), Add(z, Add(Div(Mul(z, Sq(z)), Int2F(3)),
                                        Div(Mul(z, Sq(Sq(z))), Int2F(5)))))
               : z \in {Div(Sub(x, Int2F(1)), Add(x, Int2F(1)))} })

\* np.log: -inf at zero and nan below it (warnings, no error)
Log(x) ==
    IF IsExc(x) THEN x
    ELSE IF x.k = "None" THEN Raise("AttributeError")
    ELSE IF x.k = "nan" THEN NaN
    ELSE IF x.k = "inf" THEN (IF x.n > 0 THEN x ELSE NaN)
    ELSE IF x.n < 0 THEN NaN
    ELSE IF x.n = 0 THEN Inf(-1)
    ELSE LogPos(x)

\* x < y on two finite values
Less(x, y) == x.n * y.d < y.n * x.d


\* a method's outcome: the values it returns, or the first exception raised
Ret(vals) ==
    IF \E i \in DOMAIN vals : IsExc(vals[i])
    THEN LET i == CHOOSE j \in DOMAIN vals :
                      IsExc(vals[j]) /\ \A h \in DOMAIN vals : IsExc(vals[h]) => j <= h
         IN  [ok |-> FALSE, exc |-> vals[i].k, val |-> <<>>]
    ELSE [ok |-> TRUE, exc |-> "", val |-> vals]

\* y, computed after x: what x raised is raised before y is reached
After(x, y) == IF IsExc(x) THEN x ELSE y

Half == Num(1, 2)

\* ------------------------------------------------------------------ state
\* self:    the object's attributes (those a subclass sets before __init__:
\*          _analytical, discrete; those __init__ binds: moments_match,
\*          predictive_mean and, in numerical mode only, link)
\* ctor_link: the link argument __init__ was called with
\* mass:    the parameters of the plugged-in mass model (the subclass)
\* last:    the call whose result the caller holds: its name, its arguments
\*          and what it returned or raised; op = "idle" between calls
VARIABLES self, ctor_link, mass, last

vars == <<self, ctor_link, mass, last>>

\* ------------------------------------------------- the plugged-in mass model
\* The subclass supplies _mass, _nlog_mass, _mean, _variance and their
\* derivatives.  The family used here: nlog_mass(gp, obs) = k (gp - obs)^2 / 2
\* with curvature k of either sign, and a count-like output whose variance
\* equals its mean, mean(gp) = 1 + c (gp - 1)^2.
\* The models: Gaussian-like (k = 1, constant mean), heavy-tailed (k = -2),
\* and two discrete count models.
MassModels ==
    { [k |-> 1, c |-> 0, discrete |-> FALSE],
      [k |-> -2, c |-> 1, discrete |-> FALSE],
      [k |-> 1, c |-> 1, discrete |-> TRUE],
      [k |-> 0, c |-> 0, discrete |-> TRUE] }

_nlog_mass(gp, obs) == Mul(Mul(Half, Int2F(mass.k)), Sq(Sub(gp, obs)))

_mass(gp, obs) == Exp(Neg(_nlog_mass(gp, obs)))

_dnlog_mass_dgp(gp, obs) == Mul(Int2F(mass.k), Sub(gp, obs))

_d2nlog_mass_dgp2(gp, obs) == After(gp, After(obs, Int2F(mass.k)))

_dnlog_mass_dobs(obs, gp) == Mul(Int2F(mass.k), Sub(obs, gp))

_d2nlog_mass_dobs2(obs, gp) == After(obs, After(gp, Int2F(mass.k)))

_d2nlog_mass_dcross(gp, obs) == After(gp, After(obs, Int2F(-mass.k)))

_mean(gp) == Add(Int2F(1), Mul(Int2F(mass.c), Sq(Sub(gp, Int2F(1)))))

_dmean_dgp(gp) == Mul(Int2F(2 * mass.c), Sub(gp, Int2F(1)))

_d2mean_dgp2(gp) == After(gp, Int2F(2 * mass.c))

_variance(gp) == _mean(gp)

_dvariance_dgp(gp) == _dmean_dgp(gp)

_d2variance_dgp2(gp) == _d2mean_dgp2(gp)

\* ------------------------------------------------------------ link functions
LinkFunctions == {"Identity()", "Log()"}

inv_transf(link, f) == IF link = "Log()" THEN Exp(f) ELSE f

\* ------------------------------------------------------------- the mode finder
\* the search reaches GridMax cavity standard deviations either side of mu
GridMax == 2

\* the points a search can end at: mu + j sigma / 2 for |j| <= 2 GridMax
SearchPoints(mu, sigma) ==
    {Add(mu, Mul(Num(j, 2), sigma)) : j \in (-2 * GridMax)..(2 * GridMax)}

\* a lowest point of f among cands (x0 when f is finite at none of them)
ArgMin(f, cands, x0) ==
    LET fin == {p \in cands : IsNum(f[p])}
    IN  IF fin = {} THEN x0
        ELSE CHOOSE p \in fin : \A q \in fin : ~Less(f[q], f[p])

\* sp.optimize.fmin_ncg in one dimension; f, fprime and fhess are tabulated
\* on the start x0 and the points the search can end at.  The objective,
\* gradient and Hessian are evaluated at x0 (what they raise is raised); a
\* start with zero gradient is returned as it is (the Newton step is zero);
\* otherwise the search ends at a lowest point of the objective
fmin_ncg(f, x0, fprime, fhess) ==
    IF IsExc(x0) THEN x0
    ELSE IF IsExc(f[x0]) THEN f[x0]
    ELSE IF IsExc(fprime[x0]) THEN fprime[x0]
    ELSE IF IsExc(fhess[x0]) THEN fhess[x0]
    ELSE IF ~IsNum(fprime[x0]) \/ fprime[x0].n = 0 THEN x0
    ELSE ArgMin(f, DOMAIN f, x0)

\* the same search over (latent value, output) pairs; fprime and fhess return
\* an array or raise
fmin_ncg2(f, x0, fprime, fhess) ==
    IF IsExc(x0[1]) THEN Ret(<<x0[1]>>)
    ELSE IF IsExc(x0[2]) THEN Ret(<<x0[2]>>)
    ELSE IF IsExc(f[x0]) THEN Ret(<<f[x0]>>)
    ELSE IF ~fprime[x0].ok THEN fprime[x0]
    ELSE IF ~fhess[x0].ok THEN fhess[x0]
    ELSE IF \A i \in 1..2 : ~IsNum(fprime[x0].val[i]) \/ fprime[x0].val[i].n = 0 THEN Ret(x0)
    ELSE Ret(ArgMin(f, DOMAIN f, x0))

\* ------------------------------------------- negative log density builders
_nlog_product_scaled(gp, obs, mu, sigma) ==
    Add(Mul(Half, Sq(Div(Sub(gp, mu), sigma))), _nlog_mass(gp, obs))

_dnlog_product_dgp(gp, obs, mu, sigma) ==
    Add(Div(Sub(gp, mu), Sq(sigma)), _dnlog_mass_dgp(gp, obs))

_d2nlog_product_dgp2(gp, obs, mu, sigma) ==
    Add(Div(Int2F(1), Sq(sigma)), _d2nlog_mass_dgp2(gp, obs))

_product_mode(obs, mu, sigma) ==
    LET x0 == mu
        pts == SearchPoints(mu, sigma) \cup {x0}
    IN  fmin_ncg([gp \in pts |-> _nlog_product_scaled(gp, obs, mu, sigma)], x0,
                 [gp \in pts |-> _dnlog_product_dgp(gp, obs, mu, sigma)],
                 [gp \in pts |-> _d2nlog_product_dgp2(gp, obs, mu, sigma)])

_nlog_conditional_mean_scaled(gp, mu, sigma) ==
    Sub(Mul(Half, Sq(Div(Sub(gp, mu), sigma))), Log(_mean(gp)))

_dnlog_conditional_mean_dgp(gp, mu, sigma) ==
    Sub(Div(Sub(gp, mu), Sq(sigma)), Div(_dmean_dgp(gp), _mean(gp)))

_d2nlog_conditional_mean_dgp2(gp, mu, sigma) ==
    Add(Sub(Div(Int2F(1), Sq(sigma)), Div(_d2mean_dgp2(gp), _mean(gp))),
        Sq(Div(_dmean_dgp(gp), _mean(gp))))

_nlog_exp_conditional_variance_scaled(gp, mu, sigma) ==
    Sub(Mul(Half, Sq(Div(Sub(gp, mu), sigma))), Log(_variance(gp)))

_dnlog_exp_conditional_variance_dgp(gp, mu, sigma) ==
    Sub(Div(Sub(gp, mu), Sq(sigma)), Div(_dvariance_dgp(gp), _variance(gp)))

_d2nlog_exp_conditional_variance_dgp2(gp, mu, sigma) ==
    Add(Sub(Div(Int2F(1), Sq(sigma)), Div(_d2variance_dgp2(gp), _variance(gp))),
        Sq(Div(_dvariance_dgp(gp), _variance(gp))))

_nlog_exp_conditional_mean_sq_scaled(gp, mu, sigma) ==
    Sub(Mul(Half, Sq(Div(Sub(gp, mu), sigma))), Mul(Int2F(2), Log(_mean(gp))))

_dnlog_exp_conditional_mean_sq_dgp(gp, mu, sigma) ==
    Sub(Div(Sub(gp, mu), Sq(sigma)), Div(Mul(Int2F(2), _dmean_dgp(gp)), _mean(gp)))

_d2nlog_exp_conditional_mean_sq_dgp2(gp, mu, sigma) ==
    Sub(Div(Int2F(1), Sq(sigma)),
        Mul(Int2F(2), Sub(Div(_d2mean_dgp2(gp), _mean(gp)),
                          Sq(Div(_dmean_dgp(gp), _mean(gp))))))

\* ------------------------------------------------- moments and predictions
\* the base class's analytical routines are stubs: they return None
_moments_match_analytical(obs, tau, v) == Ret(<<After(obs, After(tau, After(v, None)))>>)

\* (Z_hat, mu_hat, sigma2_hat); no test is made on tau + curvature
_moments_match_numerical(obs, tau, v) ==
    The({ The({ The({ Ret(<<Z_hat, mu_hat, sigma2_hat>>)
          : Z_hat \in {After(sigma2_hat,
                            Mul(Mul(Exp(Mul(Mul(Neg(Half), tau), Sq(Sub(mu_hat, mu)))),
                                    _mass(mu_hat, obs)),
                                Sqrt(Mul(tau, sigma2_hat))))} })
          : sigma2_hat \in {After(mu_hat,
                                 Div(Int2F(1), Add(tau, _d2nlog_mass_dgp2(mu_hat, obs))))} })
          : mu \in {Div(v, tau)},
            mu_hat \in {_product_mode(obs, Div(v, tau), Sqrt(Div(Int2F(1), tau)))} })

_predictive_mean_analytical(mu, sigma) == After(mu, After(sigma, None))

\* the Laplace integral of an objective at its mode: exp(-f) / (sqrt(f'') sigma);
\* no test is made on the sign of f''
Laplace(fmax, curv, sigma) == Div(Exp(Neg(fmax)), Mul(Sqrt(curv), sigma))

\* the mode fmin_ncg returns for this objective
_conditional_mean_mode(mu, sigma) ==
    LET x0 == _mean(mu)
        pts == SearchPoints(mu, sigma) \cup {x0}
    IN  fmin_ncg([gp \in pts |-> _nlog_conditional_mean_scaled(gp, mu, sigma)], x0,
                 [gp \in pts |-> _dnlog_conditional_mean_dgp(gp, mu, sigma)],
                 [gp \in pts |-> _d2nlog_conditional_mean_dgp2(gp, mu, sigma)])

_predictive_mean_numerical(mu, sigma) ==
    The({ After(maximum,
                Laplace(_nlog_conditional_mean_scaled(maximum, mu, sigma),
                        _d2nlog_conditional_mean_dgp2(maximum, mu, sigma), sigma))
          : maximum \in {_conditional_mean_mode(mu, sigma)} })

\* the mode fmin_ncg returns for this objective
_conditional_mean_sq_mode(mu, sigma) ==
    LET x0 == _mean(mu)
        pts == SearchPoints(mu, sigma) \cup {x0}
    IN  fmin_ncg([gp \in pts |-> _nlog_exp_conditional_mean_sq_scaled(gp, mu, sigma)], x0,
                 [gp \in pts |-> _dnlog_exp_conditional_mean_sq_dgp(gp, mu, sigma)],
                 [gp \in pts |-> _d2nlog_exp_conditional_mean_sq_dgp2(gp, mu, sigma)])

_predictive_mean_sq(mu, sigma) ==
    The({ After(maximum,
                Laplace(_nlog_exp_conditional_mean_sq_scaled(maximum, mu, sigma),
                        _d2nlog_exp_conditional_mean_sq_dgp2(maximum, mu, sigma), sigma))
          : maximum \in {_conditional_mean_sq_mode(mu, sigma)} })

\* self.moments_match(obs, tau, v): the routine __init__ bound
moments_match(obs, tau, v) ==
    IF self.moments_match = "_moments_match_numerical"
    THEN _moments_match_numerical(obs, tau, v)
    ELSE _moments_match_analytical(obs, tau, v)

\* self.predictive_mean(mu, sigma): the routine __init__ bound
predictive_mean(mu, sigma) ==
    IF self.predictive_mean = "_predictive_mean_numerical"
    THEN _predictive_mean_numerical(mu, sigma)
    ELSE _predictive_mean_analytical(mu, sigma)

\* E(V(Y|f)), lines 258-259 of predictive_variance
\* the mode fmin_ncg returns for this objective
_conditional_variance_mode(mu, sigma) ==
    LET x0 == _variance(mu)
        pts == SearchPoints(mu, sigma) \cup {x0}
    IN  fmin_ncg([gp \in pts |-> _nlog_exp_conditional_variance_scaled(gp, mu, sigma)], x0,
                 [gp \in pts |-> _dnlog_exp_conditional_variance_dgp(gp, mu, sigma)],
                 [gp \in pts |-> _d2nlog_exp_conditional_variance_dgp2(gp, mu, sigma)])

exp_var(mu, sigma) ==
    The({ After(maximum,
                Laplace(_nlog_exp_conditional_variance_scaled(maximum, mu, sigma),
                        _d2nlog_exp_conditional_variance_dgp2(maximum, mu, sigma), sigma))
          : maximum \in {_conditional_variance_mode(mu, sigma)} })

\* exp_var + (exp_exp2 - predictive_mean ** 2); the sum is returned as it is.
\* (Lines 261-269 draw the two densities with pylab; they assign nothing that
\* is read afterwards and no attribute of self.)
predictive_variance(mu, sigma, pm) ==
    The({ The({ The({ Add(ev, Sub(exp_exp2, Sq(pmean)))
          : pmean \in {After(exp_exp2, IF pm.k = "None" THEN predictive_mean(mu, sigma)
                                                        ELSE pm)} })
          : exp_exp2 \in {After(ev, _predictive_mean_sq(mu, sigma))} })
          : ev \in {exp_var(mu, sigma)} })

\* ------------------------------------------------------ the joint predictive
_nlog_joint_predictive_scaled(x, mu, sigma) ==
    _nlog_product_scaled(x[1], x[2], mu, sigma)

\* np.array(flat).reshape(rows, cols), row by row
reshape(flat, rows, cols) ==
    [i \in 1..rows |-> [j \in 1..cols |-> flat[(i - 1) * cols + j]]]

\* a faulty gradient: the assertion on self.discrete left out
_gradient_nlog_joint_predictive_unguarded(x, mu, sigma) ==
    Ret(<<_dnlog_product_dgp(x[1], x[2], mu, sigma), _dnlog_mass_dobs(x[2], x[1])>>)

_gradient_nlog_joint_predictive(x, mu, sigma) ==
    IF self.discrete THEN Ret(<<Raise("AssertionError")>>)
    ELSE Ret(<<_dnlog_product_dgp(x[1], x[2], mu, sigma),
               _dnlog_mass_dobs(x[2], x[1])>>)

\* a faulty Hessian: the second cross entry taken as the obs-obs derivative
_hessian_nlog_joint_predictive_misplaced(x, mu, sigma) ==
    IF self.discrete THEN Ret(<<Raise("AssertionError")>>)
    ELSE LET cross_derivative == _d2nlog_mass_dcross(x[1], x[2])
             flat == Ret(<<_d2nlog_product_dgp2(x[1], x[2], mu, sigma),
                           cross_derivative, _d2nlog_mass_dobs2(x[2], x[1]),
                           cross_derivative>>)
         IN  IF flat.ok THEN [flat EXCEPT !.val = reshape(flat.val, 2, 2)] ELSE flat

_hessian_nlog_joint_predictive(x, mu, sigma) ==
    IF self.discrete THEN Ret(<<Raise("AssertionError")>>)
    ELSE LET cross_derivative == _d2nlog_mass_dcross(x[1], x[2])
             flat == Ret(<<_d2nlog_product_dgp2(x[1], x[2], mu, sigma),
                           cross_derivative, cross_derivative,
                           _d2nlog_mass_dobs2(x[2], x[1])>>)
         IN  IF flat.ok THEN [flat EXCEPT !.val = reshape(flat.val, 2, 2)] ELSE flat

\* self.link is read first: an object in analytical mode has no such attribute
_joint_predictive_mode(mu, sigma) ==
    IF "link" \notin DOMAIN self THEN Ret(<<Raise("AttributeError")>>)
    ELSE LET x0 == <<mu, inv_transf(self.link, mu)>>
             pts == (SearchPoints(mu, sigma) \X SearchPoints(mu, sigma)) \cup {x0}
         IN  fmin_ncg2([x \in pts |-> _nlog_joint_predictive_scaled(x, mu, sigma)], x0,
                       [x \in pts |-> _gradient_nlog_joint_predictive(x, mu, sigma)],
                       [x \in pts |-> _hessian_nlog_joint_predictive(x, mu, sigma)])

\* ---------------------------------------------------------- predictive_values
\* A Python argument: its type t and its numbers v (one number for a scalar).
Iterables == {"list", "ndarray", "nested list"}

\* the classes an object of type t is an instance of
Bases(t) == IF t = "numpy.float64" THEN {"numpy.float64", "float"} ELSE {t}

\* a faulty test: the exact type only, subclasses left out
isinstance_exact(x, cls) == x.t = cls

isinstance(x, cls) == cls \in Bases(x.t)

\* [x]
Wrap(x) == [t |-> IF x.t \in Iterables THEN "nested list" ELSE "list", v |-> x.v]

\* np.sqrt(var), element by element
np_sqrt(var) ==
    [t |-> IF var.t \in Iterables THEN "ndarray" ELSE "numpy.float64",
     v |-> [i \in DOMAIN var.v |-> Sqrt(var.v[i])]]

\* stats.norm.ppf(p, loc, scale) = loc + scale z(p), for the two levels used
\* (z(0.975) = 1.96); nan for a scale that is not positive
ppf(p, loc, scale) ==
    IF IsExc(loc) THEN loc
    ELSE IF IsExc(scale) THEN scale
    ELSE IF loc.k = "None" \/ scale.k = "None" THEN Raise("TypeError")
    ELSE IF ~IsNum(scale) \/ scale.n <= 0 THEN NaN
    ELSE Add(loc, Mul(scale, IF Less(p, Half) THEN Num(-196, 100) ELSE Num(196, 100)))

\* a faulty zip: each mean is paired with the deviation at the mirrored index
zip_mirrored(a, b) ==
    [i \in 1..(IF Len(a) < Len(b) THEN Len(a) ELSE Len(b)) |->
        <<a[i], b[(IF Len(a) < Len(b) THEN Len(a) ELSE Len(b)) + 1 - i]>>]

\* zip(a, b): the pairs, as many as the shorter sequence has
zip(a, b) == [i \in 1..(IF Len(a) < Len(b) THEN Len(a) ELSE Len(b)) |-> <<a[i], b[i]>>]

Call(f, a, b) == [f |-> f, mu |-> a, sigma |-> b]

\* the loop of lines 334-338 over the zipped pairs, from pair i on; acc holds the four lists and the
\* calls made so far; an exception ends the loop
RECURSIVE predictive_values_loop(_, _, _)
predictive_values_loop(pairs, i, acc) ==
    IF i > Len(pairs) \/ ~acc.ok THEN acc
    ELSE The({ The({ The({ The({ predictive_values_loop(pairs, i + 1,
                 [ok |-> ~IsExc(q3),
                  exc |-> IF IsExc(q3) THEN q3.k ELSE "",
                  val |-> IF IsExc(q3) THEN <<>>
                          ELSE <<Append(acc.val[1], pm), Append(acc.val[2], pv),
                                 Append(acc.val[3], q1), Append(acc.val[4], q3)>>,
                  calls |-> acc.calls
                      \o <<Call("predictive_mean", m, s)>>
                      \o (IF IsExc(pm) THEN <<>>
                          ELSE <<Call("predictive_variance", m, s)>>)
                      \o (IF IsExc(pv) \/ IsExc(lo) THEN <<>>
                          ELSE <<Call("predictive_mean", lo, s)>>)
                      \o (IF IsExc(q1) \/ IsExc(hi) THEN <<>>
                          ELSE <<Call("predictive_mean", hi, s)>>)])
             : q3 \in {After(q1, After(hi, predictive_mean(hi, s)))} })
             : q1 \in {After(pv, After(lo, predictive_mean(lo, s)))} })
             : pv \in {After(pm, predictive_variance(m, s, pm))} })
             : pm \in {predictive_mean(pairs[i][1], pairs[i][2])},
               lo \in {ppf(Num(25, 1000), pairs[i][1], Sq(pairs[i][2]))},
               hi \in {ppf(Num(975, 1000), pairs[i][1], Sq(pairs[i][2]))},
               m \in {pairs[i][1]}, s \in {pairs[i][2]} })

\* np.array(l)[:,None]: one row per entry
column(l) == [i \in DOMAIN l |-> <<l[i]>>]

Raised(e) == [ok |-> FALSE, exc |-> e, val |-> <<>>, calls |-> <<>>]

\* a float or an int is wrapped with its var; np.sqrt(var) and zip raise on
\* what they cannot take; then the loop, then the four columns
predictive_values(mu_arg, var_arg) ==
    LET scalar == isinstance(mu_arg, "float") \/ isinstance(mu_arg, "int")
        mu == IF scalar THEN Wrap(mu_arg) ELSE mu_arg
        var == IF scalar THEN Wrap(var_arg) ELSE var_arg
        start == [ok |-> TRUE, exc |-> "", val |-> <<<<>>, <<>>, <<>>, <<>>>>,
                  calls |-> <<>>]
    IN  The({ IF ~Ret(s.v).ok THEN Raised(Ret(s.v).exc)
              ELSE IF mu.t \notin Iterables \/ s.t \notin Iterables
                   THEN Raised("TypeError")
              ELSE The({ IF ~done.ok THEN done
                         ELSE [done EXCEPT !.val = <<column(done.val[1]), column(done.val[2]),
                                                     column(done.val[3]), column(done.val[4])>>]
                         : done \in {predictive_values_loop(zip(mu.v, s.v), 1, start)} })
              : s \in {np_sqrt(var)} })

\* ------------------------------------------------------------- construction
\* what a subclass assigns to self._analytical before calling __init__
Sentinels == {"Probit", "None"}

\* what __init__ can be given: a sentinel or a LinkFunction instance
LinkArguments == Sentinels \cup LinkFunctions

\* __init__(self, link) on the attributes obj the subclass has set: the
\* object it leaves, or no object when the assertion fails
__init__(obj, link) ==
    IF link = obj._analytical
    THEN [ok |-> TRUE,
          self |-> obj @@ [moments_match |-> "_moments_match_analytical",
                           predictive_mean |-> "_predictive_mean_analytical"]]
    ELSE IF link \notin LinkFunctions
    THEN [ok |-> FALSE, self |-> obj]
    ELSE [ok |-> TRUE,
          self |-> obj @@ [link |-> link,
                           moments_match |-> "_moments_match_numerical",
                           predictive_mean |-> "_predictive_mean_numerical"]]

\* ------------------------------------------------------------------ inputs
Taus == {Int2F(t) : t \in 1..MaxTau}

Vs == {Int2F(-1), Int2F(0), Int2F(1)}

Observations == {Int2F(0), Int2F(1)}

Means == {Int2F(0), Int2F(1)}

Sigmas == {Int2F(1), Int2F(2)}

Variances == {Int2F(1), Int2F(4)}

\* a predictive mean the caller supplies, or None
SuppliedMeans == {None, Int2F(1), Int2F(2)}

\* the (mean, variance) pairs a sequence is made of; a mean can be missing
Pairs == {<<Int2F(0), Int2F(1)>>, <<Int2F(1), Int2F(4)>>, <<None, Int2F(1)>>}

ScalarTypes == {"float", "int", "numpy.float64", "numpy.float32"}

\* the sequences of at most n different members of S
SeqsUpTo(S, n) ==
    UNION {{l \in [1..m -> S] : \A i, j \in 1..m : l[i] = l[j] => i = j} : m \in 0..n}

Idle == [op |-> "idle"]

\* ------------------------------------------------------------------- actions
Init ==
    /\ mass \in MassModels
    /\ \E an \in Sentinels, link \in LinkArguments :
          /\ __init__([_analytical |-> an, discrete |-> mass.discrete], link).ok
          /\ self = __init__([_analytical |-> an, discrete |-> mass.discrete], link).self
          /\ ctor_link = link
    /\ last = Idle

\* the caller takes the result of the last call
Return ==
    /\ last.op # "idle"
    /\ last' = Idle
    /\ UNCHANGED <<self, ctor_link, mass>>

CallMomentsMatch ==
    /\ last.op = "idle"
    /\ \E obs \in Observations, tau \in Taus, v \in Vs :
          last' = [op |-> "moments_match", obs |-> obs, tau |-> tau, v |-> v,
                   ret |-> moments_match(obs, tau, v)]
    /\ UNCHANGED <<self, ctor_link, mass>>

CallPredictiveMean ==
    /\ last.op = "idle"
    /\ \E mu \in Means, sigma \in Sigmas :
          last' = [op |-> "predictive_mean", mu |-> mu, sigma |-> sigma,
                   ret |-> Ret(<<predictive_mean(mu, sigma)>>)]
    /\ UNCHANGED <<self, ctor_link, mass>>

CallPredictiveMeanSq ==
    /\ last.op = "idle"
    /\ \E mu \in Means, sigma \in Sigmas :
          last' = [op |-> "_predictive_mean_sq", mu |-> mu, sigma |-> sigma,
                   ret |-> Ret(<<_predictive_mean_sq(mu, sigma)>>)]
    /\ UNCHANGED <<self, ctor_link, mass>>

\* a faulty predictive_variance: it rebinds self.predictive_mean on its way
CallPredictiveVariance_rebinds ==
    /\ last.op = "idle"
    /\ \E mu \in Means, sigma \in Sigmas, pm \in SuppliedMeans :
          last' = [op |-> "predictive_variance", mu |-> mu, sigma |-> sigma,
                   predictive_mean |-> pm,
                   ret |-> Ret(<<predictive_variance(mu, sigma, pm)>>)]
    /\ self' = [self EXCEPT !.predictive_mean = "_predictive_mean_numerical"]
    /\ UNCHANGED <<ctor_link, mass>>

CallPredictiveVariance ==
    /\ last.op = "idle"
    /\ \E mu \in Means, sigma \in Sigmas, pm \in SuppliedMeans :
          last' = [op |-> "predictive_variance", mu |-> mu, sigma |-> sigma,
                   predictive_mean |-> pm,
                   ret |-> Ret(<<predictive_variance(mu, sigma, pm)>>)]
    /\ UNCHANGED <<self, ctor_link, mass>>

\* the arguments are one scalar pair of any numeric type, or two sequences
CallPredictiveValues ==
    /\ last.op = "idle"
    /\ \E a \in {<<[t |-> "list", v |-> [i \in DOMAIN l |-> l[i][1]]],
                   [t |-> "list", v |-> [i \in DOMAIN l |-> l[i][2]]]>>
                   : l \in SeqsUpTo(Pairs, MaxLen)}
              \cup {<<[t |-> ty, v |-> <<m>>], [t |-> ty, v |-> <<var>>]>>
                   : ty \in ScalarTypes, m \in Means, var \in Variances} :
          last' = [op |-> "predictive_values", mu |-> a[1], var |-> a[2],
                   ret |-> predictive_values(a[1], a[2])]
    /\ UNCHANGED <<self, ctor_link, mass>>

CallGradient ==
    /\ last.op = "idle"
    /\ \E gp \in Means, obs \in Observations, mu \in Means, sigma \in Sigmas :
          last' = [op |-> "_gradient_nlog_joint_predictive", x |-> <<gp, obs>>,
                   mu |-> mu, sigma |-> sigma,
                   ret |-> _gradient_nlog_joint_predictive(<<gp, obs>>, mu, sigma)]
    /\ UNCHANGED <<self, ctor_link, mass>>

CallHessian ==
    /\ last.op = "idle"
    /\ \E gp \in Means, obs \in Observations, mu \in Means, sigma \in Sigmas :
          last' = [op |-> "_hessian_nlog_joint_predictive", x |-> <<gp, obs>>,
                   mu |-> mu, sigma |-> sigma,
                   ret |-> _hessian_nlog_joint_predictive(<<gp, obs>>, mu, sigma)]
    /\ UNCHANGED <<self, ctor_link, mass>>

CallJointPredictiveMode ==
    /\ last.op = "idle"
    /\ \E mu \in Means, sigma \in Sigmas :
          last' = [op |-> "_joint_predictive_mode", mu |-> mu, sigma |-> sigma,
                   ret |-> _joint_predictive_mode(mu, sigma)]
    /\ UNCHANGED <<self, ctor_link, mass>>

Next ==
    \/ CallMomentsMatch
    \/ CallPredictiveMean
    \/ CallPredictiveMeanSq
    \/ CallPredictiveVariance
    \/ CallPredictiveValues
    \/ CallGradient
    \/ CallHessian
    \/ CallJointPredictiveMode
    \/ Return

Spec == Init /\ [][Next]_vars

\* ------------------------------------------------------------------ claims
Numerical == self.predictive_mean = "_predictive_mean_numerical"

ListCall == last.op = "predictive_values" /\ last.mu.t = "list"

\* the cavity standard deviation of pair i of the last predictive_values call
Dev(i) == Sqrt(last.var.v[i])

\* C1: a predictive_values call that returns gives four sequences of N
\* entries each, N the number of input pairs, and entry i of each is the value
\* computed from pair i: mean mu[i], standard deviation sqrt(var[i])
C1_OrderAndLength ==
    (ListCall /\ last.ret.ok) =>
        /\ \A c \in 1..4 : Len(last.ret.val[c]) = Len(last.mu.v)
        /\ \A i \in 1..Len(last.mu.v) :
              /\ last.ret.val[1][i] = <<predictive_mean(last.mu.v[i], Dev(i))>>
              /\ last.ret.val[2][i] =
                    <<predictive_variance(last.mu.v[i], Dev(i),
                                          predictive_mean(last.mu.v[i], Dev(i)))>>
              /\ last.ret.val[3][i] =
                    <<predictive_mean(ppf(Num(25, 1000), last.mu.v[i], Sq(Dev(i))), Dev(i))>>
              /\ last.ret.val[4][i] =
                    <<predictive_mean(ppf(Num(975, 1000), last.mu.v[i], Sq(Dev(i))), Dev(i))>>

\* a call over two different pairs has returned, with two different means
C1_Witness ==
    /\ ListCall /\ last.ret.ok
    /\ Len(last.mu.v) = 2
    /\ last.mu.v[1] # last.mu.v[2] /\ last.var.v[1] # last.var.v[2]
    /\ last.ret.val[1][1] # last.ret.val[1][2]

\* C2: on a discrete mass model the joint predictive gradient and Hessian end
\* in the assertion failure whatever their arguments, and
\* _joint_predictive_mode returns no mode
C2_DiscreteGuard ==
    self.discrete =>
        /\ last.op \in {"_gradient_nlog_joint_predictive", "_hessian_nlog_joint_predictive"}
              => (~last.ret.ok /\ last.ret.exc = "AssertionError" /\ last.ret.val = <<>>)
        /\ last.op = "_joint_predictive_mode" => (~last.ret.ok /\ last.ret.val = <<>>)

\* the mode search of a discrete model in numerical mode ended in the
\* assertion of the gradient callback
C2_Witness ==
    /\ self.discrete /\ "link" \in DOMAIN self
    /\ last.op = "_joint_predictive_mode"
    /\ last.ret.exc = "AssertionError"

Positive(x) == x.k \in {"num", "inf"} /\ x.n > 0

Negative(x) == x.k \in {"num", "inf"} /\ x.n < 0

\* C3 as stated: every _moments_match_numerical call (tau > 0) returns
\* sigma2_hat > 0 and Z_hat >= 0
C3_MomentsPositive ==
    (last.op = "moments_match" /\ self.moments_match = "_moments_match_numerical") =>
        /\ last.ret.ok
        /\ Positive(last.ret.val[3])
        /\ Positive(last.ret.val[1]) \/ (IsNum(last.ret.val[1]) /\ last.ret.val[1].n = 0)

\* C4 as stated: predictive_variance with sigma > 0 never returns a negative
\* value, the predictive mean computed on demand or supplied
C4_VarianceNotNegative ==
    (last.op = "predictive_variance" /\ last.ret.ok) => ~Negative(last.ret.val[1])

\* C5 as stated: a scalar call returns what the call on the one-pair
\* sequences returns and makes the same calls, for every scalar
C5_EveryScalar ==
    (last.op = "predictive_values" /\ last.mu.t \in ScalarTypes) =>
        last.ret = predictive_values([t |-> "list", v |-> last.mu.v],
                                     [t |-> "list", v |-> last.var.v])

\* C5 amended: the same for every scalar mu that is an instance of float or
\* of int (float, int, numpy.float64)
C5_FloatOrIntScalar ==
    (last.op = "predictive_values" /\ last.mu.t \in {"float", "int", "numpy.float64"}) =>
        last.ret = predictive_values([t |-> "list", v |-> last.mu.v],
                                     [t |-> "list", v |-> last.var.v])

\* a numpy.float64 scalar call has returned its four 1x1 columns
C5_Witness ==
    /\ last.op = "predictive_values" /\ last.mu.t = "numpy.float64"
    /\ last.ret.ok
    /\ \A c \in 1..4 : Len(last.ret.val[c]) = 1 /\ Len(last.ret.val[c][1]) = 1

\* C6: on a continuous model the joint predictive Hessian is the 2x2 matrix
\* with the latent-latent derivative of the tilted product at [0][0], the
\* obs-obs derivative of nlog_mass at [1][1] and the cross partial at both
\* off-diagonal places
C6_HessianSymmetric ==
    (last.op = "_hessian_nlog_joint_predictive" /\ ~self.discrete) =>
        /\ last.ret.ok
        /\ last.ret.val[1][2] = last.ret.val[2][1]
        /\ last.ret.val[1][2] = _d2nlog_mass_dcross(last.x[1], last.x[2])
        /\ last.ret.val[1][1] = _d2nlog_product_dgp2(last.x[1], last.x[2], last.mu, last.sigma)
        /\ last.ret.val[2][2] = _d2nlog_mass_dobs2(last.x[2], last.x[1])

\* a Hessian whose cross entry differs from both diagonal entries is back
C6_Witness ==
    /\ last.op = "_hessian_nlog_joint_predictive" /\ ~self.discrete /\ last.ret.ok
    /\ last.ret.val[1][2] # last.ret.val[1][1]
    /\ last.ret.val[1][2] # last.ret.val[2][2]
    /\ last.ret.val[1][1] # last.ret.val[2][2]

\* pair i of the last call, computed on its own, fails
PairFails(i) ==
    ~predictive_values([t |-> "list", v |-> <<last.mu.v[i]>>],
                       [t |-> "list", v |-> <<last.var.v[i]>>]).ok

\* C7 as stated: when pair i fails, the results of every pair that does not
\* fail are still computed and returned
C7_FailureIsolated ==
    ListCall =>
        \A j \in 1..Len(last.mu.v) :
            ~PairFails(j) =>
                /\ Call("predictive_mean", last.mu.v[j], Dev(j)) \in
                      {last.ret.calls[n] : n \in DOMAIN last.ret.calls}
                /\ last.ret.val # <<>>
                /\ last.ret.val[1][j] = <<predictive_mean(last.mu.v[j], Dev(j))>>

\* C8 as stated: the lower and upper entries of pair i are predictive_mean at
\* the 2.5% and 97.5% quantiles of the Gaussian with mean m and standard
\* deviation s, the quantile function called with scale s
C8_QuantileScale ==
    (ListCall /\ last.ret.ok) =>
        \A i \in 1..Len(last.mu.v) :
            /\ last.ret.calls[4 * i - 1] =
                  Call("predictive_mean", ppf(Num(25, 1000), last.mu.v[i], Dev(i)), Dev(i))
            /\ last.ret.calls[4 * i] =
                  Call("predictive_mean", ppf(Num(975, 1000), last.mu.v[i], Dev(i)), Dev(i))
            /\ last.ret.val[3][i] =
                  <<predictive_mean(ppf(Num(25, 1000), last.mu.v[i], Dev(i)), Dev(i))>>
            /\ last.ret.val[4][i] =
                  <<predictive_mean(ppf(Num(975, 1000), last.mu.v[i], Dev(i)), Dev(i))>>

NonPositive(x) == x.k = "nan" \/ (x.k \in {"num", "inf"} /\ x.n <= 0)

\* the second derivative of the objective at the mode the last call found
CurvatureAtMode ==
    IF last.op = "moments_match"
    THEN LET mu == Div(last.v, last.tau)
             sigma == Sqrt(Div(Int2F(1), last.tau))
         IN  _d2nlog_product_dgp2(_product_mode(last.obs, mu, sigma), last.obs, mu, sigma)
    ELSE IF last.op = "predictive_mean"
    THEN _d2nlog_conditional_mean_dgp2(_conditional_mean_mode(last.mu, last.sigma),
                                       last.mu, last.sigma)
    ELSE IF last.op = "_predictive_mean_sq"
    THEN _d2nlog_exp_conditional_mean_sq_dgp2(_conditional_mean_sq_mode(last.mu, last.sigma),
                                              last.mu, last.sigma)
    ELSE _d2nlog_exp_conditional_variance_dgp2(_conditional_variance_mode(last.mu, last.sigma),
                                               last.mu, last.sigma)

\* C9 as stated: a numerical routine whose objective has zero or negative
\* curvature at the mode found fails with an error
C9_InvalidCurvatureRejected ==
    ( /\ last.op \in {"moments_match", "predictive_mean", "_predictive_mean_sq",
                      "predictive_variance"}
      /\ last.op = "moments_match" => self.moments_match = "_moments_match_numerical"
      /\ last.op = "predictive_mean" => Numerical
      /\ NonPositive(CurvatureAtMode) )
    => ~last.ret.ok

\* the dispatch __init__ binds for the link it was given
DispatchAsConstructed ==
    IF ctor_link = self._analytical
    THEN /\ self.moments_match = "_moments_match_analytical"
         /\ self.predictive_mean = "_predictive_mean_analytical"
         /\ "link" \notin DOMAIN self
    ELSE /\ self.moments_match = "_moments_match_numerical"
         /\ self.predictive_mean = "_predictive_mean_numerical"
         /\ self.link = ctor_link

\* C10: both bindings are the analytical routines when the link given to
\* __init__ equals the sentinel and the numerical ones (with the link stored)
\* otherwise, at every time, and no call changes any attribute of the object
C10_DispatchFixed == []DispatchAsConstructed /\ [][self' = self]_vars

\* predictive_variance has run on an object in analytical mode, which calls
\* the bound predictive_mean itself
C10_Witness ==
    /\ last.op = "predictive_variance" /\ last.predictive_mean = None
    /\ ctor_link = self._analytical
    /\ self.predictive_mean = "_predictive_mean_analytical"
====
